---- MODULE Spec2Model ----
(***************************************************************************)
(* nejma: group based publish/subscribe over channels.                     *)
(*                                                                         *)
(* src/nejma/layers.py defines Channel, ChannelLayer (groups kept in a     *)
(* dict of dicts in the process) and RedisLayer (groups kept as hashes in  *)
(* a redis store).  The model has one layer object, of either class.  In   *)
(* Spec every coroutine of the layer runs to its end with no other one     *)
(* interleaved and is one action; in SpecAsync coroutines give way at an   *)
(* await; SpecChannel constructs Channels from every short string.         *)
(* Strings are sequences of one-character strings, so that                 *)
(* str.isidentifier and str.startswith are computed, not assumed.          *)
(***************************************************************************)
EXTENDS Integers, Sequences, FiniteSets, TLC

\* --------------------------------------------------------------- bounds
\* Channel objects constructed in one behaviour.
MaxChans == 2
\* Last reading of the clock, in ticks.
MaxTime == 3
\* Clock ticks per second: time.time() is a float, int() drops the fraction.
TicksPerSecond == 2

\* Longest name given to Channel(name=...) where every string is tried.
MaxNameLen == 2
\* Coroutines of a RedisLayer inside _initialize at the same time.
MaxInits == 2
\* Sends one group_send awaits when the dict it iterates had its keys changed.
MaxSends == 3

\* --------------------------------------------------------------- strings
AsciiLetters == {"a", "g", "o", "p", "r", "u", "x"}
Digits == {"1"}
\* str.isidentifier follows the Unicode XID classes: letters beyond ASCII pass.
UnicodeLetters == {"é"}
XidStart == AsciiLetters \cup UnicodeLetters \cup {"_"}
XidContinue == XidStart \cup Digits

\* str.isidentifier()
isidentifier(s) ==
    /\ Len(s) > 0
    /\ s[1] \in XidStart
    /\ \A i \in 1..Len(s) : s[i] \in XidContinue

\* str.startswith(prefix)
startswith(s, prefix) ==
    /\ Len(s) >= Len(prefix)
    /\ SubSeq(s, 1, Len(prefix)) = prefix

\* validate_name that takes any name that is not empty
validate_name_truthy(name) == Len(name) > 0

\* Channel.validate_name / ChannelLayer.validate_name: True, or TypeError raised.
validate_name(name) == isidentifier(name)

\* "".join(random.choices(string.ascii_letters, k=12)): the letters drawn are
\* bounded to one, the length is the program's.
RandomNameLength == 12
RandomLetters == {"a"}
RandomNames == [1..RandomNameLength -> RandomLetters]

\* --------------------------------------------------------------- inputs
None == <<"None">>
ValidName == <<"a">>
ChannelNameArgs == {ValidName, <<"1">>}
ExpiresArgs == {0, 1}
\* the names of two groups: an ASCII one and one whose letter is not ASCII
GroupNames == {<<"x">>, <<"é">>}
BadGroupNames == {<<>>, <<"1">>, <<"x", "-">>}
GroupArgs == GroupNames \cup BadGroupNames
\* RedisLayer(prefix="group"), the default
Prefix == <<"g", "r", "o", "u", "p">>
\* a group name that carries the prefix already
PrefixedNames == {Prefix \o <<"_", "x">>}
\* names of the channels a RedisLayer is given: as a str (unchecked), or on a
\* Channel object, whose name is valid or drawn
BareNames == {ValidName, <<"1">>}
Payloads == {"p1", "p2"}
\* every string of up to MaxNameLen characters: a letter, a digit, the
\* underscore and a character no identifier holds
NameChars == {"a", "1", "_", "-"}
AllNames == UNION {[1..n -> NameChars] : n \in 0..MaxNameLen}

VARIABLES
    layer,      \* class of the layer object: "ChannelLayer" or "RedisLayer"
    now,        \* time.time(), in ticks
    chans,      \* the Channel objects constructed so far; the index is the object
    groups,     \* ChannelLayer.groups: group name -> channels in insertion order
    last,       \* the most recent call on the layer, what it raised and delivered
    initialized,    \* RedisLayer.initialized
    connections,    \* the pools aioredis.create_redis_pool has made for the layer
    send,       \* RedisLayer.send, the one delivery of the layer
    store,      \* the redis store: key -> the fields of the hash at that key
    iter,       \* the dict iterator of a ChannelLayer.group_send suspended in a send
    inits       \* the RedisLayer coroutines that entered _initialize, in order

redisVars == <<initialized, connections, send, store, inits>>
vars == <<layer, now, chans, groups, last, initialized, connections, send, store,
          iter, inits>>

\* --------------------------------------------------------------- Channel
\* Channel.__init__ once the name is settled (lines 16-19).
Channel(name, expires, t) ==
    [name |-> name, expires |-> expires, created_at |-> t]

\* int(self.created_at), in ticks
IntCreatedAt(ch) == (ch.created_at \div TicksPerSecond) * TicksPerSecond

\* is_expired with <= for <
is_expired_le(ch, t) == ch.expires * TicksPerSecond + IntCreatedAt(ch) <= t

\* Channel.is_expired
is_expired(ch, t) == ch.expires * TicksPerSecond + IntCreatedAt(ch) < t

\* --------------------------------------------------------------- dict helpers
Range(s) == {s[i] : i \in 1..Len(s)}

\* del d[k] on an insertion ordered dict
RECURSIVE Del(_, _)
Del(s, k) ==
    IF s = <<>> THEN <<>>
    ELSE IF Head(s) = k THEN Del(Tail(s), k)
    ELSE <<Head(s)>> \o Del(Tail(s), k)

\* a list that is appended to, for the dict
SetKey_append(s, k) == Append(s, k)

\* d[k] = 1 on an insertion ordered dict: a key already there keeps its place
SetKey(s, k) == IF k \in Range(s) THEN s ELSE Append(s, k)

\* --------------------------------------------------------------- the call record
NoChannel == [kind |-> "none", id |-> 0, name |-> <<>>]
ObjArg(c) == [kind |-> "obj", id |-> c, name |-> <<>>]
StrArg(s) == [kind |-> "str", id |-> 0, name |-> s]

\* One call: its arguments, what it raised ("ok": nothing), the deliveries it
\* awaited, and the membership (groups, or store) it started from.
Call(op, group, channel, payload, result, calls, before) ==
    [op |-> op, group |-> group, channel |-> channel, payload |-> payload,
     result |-> result, calls |-> calls, before |-> before]

\* --------------------------------------------------------------- ChannelLayer
\* ChannelLayer.__init__: self.groups = {}
EmptyDict == [g \in {} |-> <<>>]

\* self.groups.get(group, {})
Get(grps, g) == IF g \in DOMAIN grps THEN grps[g] ELSE <<>>

\* add with one dict shared by every group
groups_add_shared(grps, g, c) ==
    LET d == IF g \in DOMAIN grps THEN grps ELSE grps @@ (g :> <<>>)
    IN  [h \in DOMAIN d |-> SetKey(d[h], c)]

\* ChannelLayer.add, lines 51-53: setdefault, then the channel is set as a key
groups_add(grps, g, c) ==
    LET d == IF g \in DOMAIN grps THEN grps ELSE grps @@ (g :> <<>>)
    IN  [d EXCEPT ![g] = SetKey(@, c)]

\* remove that drops the whole group
groups_remove_group(grps, g, c) ==
    IF g \in DOMAIN grps /\ c \in Range(grps[g])
    THEN [grps EXCEPT ![g] = <<>>]
    ELSE grps

\* remove by the name of the channel
groups_remove_namesakes(grps, g, c) ==
    IF g \in DOMAIN grps /\ c \in Range(grps[g])
    THEN [grps EXCEPT ![g] = SelectSeq(@, LAMBDA d : chans[d].name # chans[c].name)]
    ELSE grps

\* ChannelLayer.remove, lines 56-58
groups_remove(grps, g, c) ==
    IF g \in DOMAIN grps /\ c \in Range(grps[g])
    THEN [grps EXCEPT ![g] = Del(@, c)]
    ELSE grps

\* flush that rebinds a local name
groups_flush_local(grps) == grps

\* ChannelLayer.flush, line 61
groups_flush(grps) == EmptyDict

\* remove_channel that stops at the first group holding the channel
groups_remove_channel_first(grps, c) ==
    LET holding == {g \in DOMAIN grps : c \in Range(grps[g])}
        first == CHOOSE g \in holding : TRUE
    IN  IF holding = {} THEN grps ELSE [grps EXCEPT ![first] = Del(@, c)]

\* ChannelLayer.remove_channel, lines 69-71
groups_remove_channel(grps, c) ==
    [g \in DOMAIN grps |-> Del(grps[g], c)]

\* the channels of a dict that have not expired at t, in the dict's order
RECURSIVE Unexpired(_, _, _)
Unexpired(s, objs, t) ==
    IF s = <<>> THEN <<>>
    ELSE IF is_expired(objs[Head(s)], t) THEN Unexpired(Tail(s), objs, t)
    ELSE <<Head(s)>> \o Unexpired(Tail(s), objs, t)

\* clean_expired that sweeps nothing
clean_expired_none(grps, objs, t) == grps

\* ChannelLayer.clean_expired: every group loses its expired channels
clean_expired(grps, objs, t) ==
    [g \in DOMAIN grps |-> Unexpired(grps[g], objs, t)]

\* the loop carrying on after a delivery raised
Deliveries_all(members, f) == members

\* The loop of ChannelLayer.group_send (lines 65-66) over `members`, when the
\* delivery to members[f] raises (f = Len(members) + 1: none raises): the
\* channels whose send was awaited, in order.  The exception leaves the loop.
Deliveries(members, f) ==
    SubSeq(members, 1, IF f <= Len(members) THEN f ELSE Len(members))

\* What group_send raises: the exception of the delivery, as it is.
SendResult(members, f) == IF f <= Len(members) THEN "DeliveryError" ELSE "ok"

\* channel.send(payload) for each of cs; the f-th raises
Sent(cs, p, f) ==
    [i \in 1..Len(cs) |-> [channel |-> cs[i], payload |-> p, raised |-> (i = f)]]

\* No group_send is suspended.
NoIter ==
    [active |-> FALSE, live |-> FALSE, group |-> <<>>, payload |-> "p1",
     dict |-> <<>>, di_used |-> 0, mutated |-> FALSE, calls |-> <<>>,
     before |-> EmptyDict]

\* The iterator of `for channel in self.groups.get(group, {})` (line 65) while
\* the coroutine is suspended: `dict` is what the dict object iterated holds
\* now, di_used its size when the iterator was made, `live` whether it still
\* is self.groups[group], `mutated` whether a key was set or deleted since.
\* What the iterator sees after the groups became grps:
Observe(it, grps) ==
    IF it.active /\ it.live
    THEN [it EXCEPT !.dict = Get(grps, it.group),
                    !.mutated = @ \/ Get(grps, it.group) # it.dict]
    ELSE it

\* flush rebinds self.groups: the dict iterated is no group's dict any more
Detach(it) == IF it.active THEN [it EXCEPT !.live = FALSE] ELSE it

\* Channel(name=..., expires=...) by the caller (lines 13-19)
NewChannel(nameArg, expires) ==
    /\ layer = "ChannelLayer"
    /\ Len(chans) < MaxChans
    /\ IF nameArg \notin {None, <<>>} /\ ~validate_name(nameArg)
       THEN /\ last' = Call("Channel", <<>>, StrArg(nameArg), "p1", "TypeError", <<>>, groups)
            /\ UNCHANGED chans
       ELSE \E name \in (IF nameArg \in {None, <<>>} THEN RandomNames ELSE {nameArg}) :
            /\ chans' = Append(chans, Channel(name, expires, now))
            /\ last' = Call("Channel", <<>>,
                            [kind |-> "str", id |-> Len(chans) + 1, name |-> nameArg],
                            "p1", "ok", <<>>, groups)
    /\ UNCHANGED <<layer, now, groups>>
    /\ UNCHANGED iter
    /\ UNCHANGED redisVars

\* ChannelLayer.add(group_name, channel) with a Channel object
ChannelLayer_add(g, c) ==
    /\ layer = "ChannelLayer"
    /\ IF ~validate_name(g)
       THEN /\ last' = Call("add", g, ObjArg(c), "p1", "TypeError", <<>>, groups)
            /\ UNCHANGED groups
       ELSE /\ groups' = groups_add(groups, g, c)
            /\ last' = Call("add", g, ObjArg(c), "p1", "ok", <<>>, groups)
    /\ UNCHANGED <<layer, now, chans>>
    /\ iter' = Observe(iter, groups')
    /\ UNCHANGED redisVars

\* ChannelLayer.add(group_name, channel, send) with a bare name: line 49
\* constructs the Channel, with the default expires
DefaultExpires == 60
ChannelLayer_add_name(g, s) ==
    /\ layer = "ChannelLayer"
    /\ Len(chans) < MaxChans
    /\ IF ~validate_name(g) \/ (s # <<>> /\ ~validate_name(s))
       THEN /\ last' = Call("add", g, StrArg(s), "p1", "TypeError", <<>>, groups)
            /\ UNCHANGED <<groups, chans>>
       ELSE \E name \in (IF s = <<>> THEN RandomNames ELSE {s}) :
            /\ chans' = Append(chans, Channel(name, DefaultExpires, now))
            /\ groups' = groups_add(groups, g, Len(chans) + 1)
            /\ last' = Call("add", g,
                            [kind |-> "str", id |-> Len(chans) + 1, name |-> s],
                            "p1", "ok", <<>>, groups)
    /\ UNCHANGED <<layer, now>>
    /\ iter' = Observe(iter, groups')
    /\ UNCHANGED redisVars

\* ChannelLayer.remove(group_name, channel): channel is an object or anything else
ChannelLayer_remove(g, ch) ==
    /\ layer = "ChannelLayer"
    /\ groups' = IF ch.kind = "obj" THEN groups_remove(groups, g, ch.id) ELSE groups
    /\ last' = Call("remove", g, ch, "p1", "ok", <<>>, groups)
    /\ UNCHANGED <<layer, now, chans>>
    /\ iter' = Observe(iter, groups')
    /\ UNCHANGED redisVars

\* ChannelLayer.flush
ChannelLayer_flush ==
    /\ layer = "ChannelLayer"
    /\ groups' = groups_flush(groups)
    /\ last' = Call("flush", <<>>, NoChannel, "p1", "ok", <<>>, groups)
    /\ UNCHANGED <<layer, now, chans>>
    /\ iter' = Detach(iter)
    /\ UNCHANGED redisVars

\* ChannelLayer.remove_channel(channel)
ChannelLayer_remove_channel(c) ==
    /\ layer = "ChannelLayer"
    /\ groups' = groups_remove_channel(groups, c)
    /\ last' = Call("remove_channel", <<>>, ObjArg(c), "p1", "ok", <<>>, groups)
    /\ UNCHANGED <<layer, now, chans>>
    /\ iter' = Observe(iter, groups')
    /\ UNCHANGED redisVars

\* ChannelLayer.group_send(group, payload), run to its end with nothing
\* interleaved: the sweep, then one awaited send per member of the group.
ChannelLayer_group_send(g, p) ==
    /\ layer = "ChannelLayer"
    /\ LET swept == clean_expired(groups, chans, now)
           members == Get(swept, g)
       IN  \E f \in 1..(Len(members) + 1) :
             /\ groups' = swept
             /\ last' = Call("group_send", g, NoChannel, p,
                             SendResult(members, f), Sent(Deliveries(members, f), p, f),
                             groups)
    /\ UNCHANGED <<layer, now, chans>>
    /\ iter' = Observe(iter, groups')
    /\ UNCHANGED redisVars

\* the clock moves on; `last` is then no call, so that `now` is the time of
\* the call whenever `last` is one
Tick ==
    /\ now < MaxTime
    /\ now' = now + 1
    /\ last' = Call("tick", <<>>, NoChannel, "p1", "ok", <<>>,
                    IF layer = "ChannelLayer" THEN groups ELSE store)
    /\ UNCHANGED <<layer, chans, groups>>
    /\ UNCHANGED iter
    /\ UNCHANGED redisVars

\* --------------------------------------------------------------- RedisLayer
\* a Channel object given to the RedisLayer, which reads its name only
NamedObj(n) == [kind |-> "obj", id |-> 0, name |-> n]

\* RedisLayer.group_prefix
group_prefix(group) ==
    IF ~startswith(group, Prefix \o <<"_">>)
    THEN Prefix \o <<"_">> \o group
    ELSE group

\* redis: the fields of the hash at key; no hash, no fields
Hash(st, key) == IF key \in DOMAIN st THEN st[key] ELSE {}

\* redis HSET key field 1
hset(st, key, field) ==
    IF key \in DOMAIN st
    THEN [st EXCEPT ![key] = @ \cup {field}]
    ELSE st @@ (key :> {field})

\* redis DEL key
delete(st, key) == [k \in DOMAIN st \ {key} |-> st[k]]

\* HDEL that drops the whole hash
hdel_key(st, key, field) == delete(st, key)

\* redis HDEL key field: a hash left with no field is no key any more
hdel(st, key, field) ==
    IF key \notin DOMAIN st THEN st
    ELSE IF st[key] \ {field} = {} THEN delete(st, key)
    ELSE [st EXCEPT ![key] = @ \ {field}]

\* redis SCAN 0 MATCH <prefix>_*: one call of the cursor, which returns keys
\* that match and need not reach the end of the key space
MatchingKeys(st) == {k \in DOMAIN st : startswith(k, Prefix \o <<"_">>)}
scan(st) == SUBSET MatchingKeys(st)

RECURSIVE hdel_all(_, _, _)
\* RedisLayer.remove_channel, lines 124-125
hdel_all(st, keys, field) ==
    IF keys = {} THEN st
    ELSE LET k == CHOOSE x \in keys : TRUE
         IN  hdel_all(hdel(st, k, field), keys \ {k}, field)

RECURSIVE delete_all(_, _)
\* RedisLayer.flush, lines 137-138
delete_all(st, keys) ==
    IF keys = {} THEN st
    ELSE LET k == CHOOSE x \in keys : TRUE
         IN  delete_all(delete(st, k), keys \ {k})

\* lines 110-111 and RedisLayer._initialize, with nothing interleaved
Initialized ==
    /\ initialized' = TRUE
    /\ connections' = IF initialized THEN connections ELSE connections + 1

\* one send for the group, not one per field
RedisDeliveries_once(n, f) == IF n > 0 THEN 1 ELSE 0

\* the loop of RedisLayer.group_send (lines 146-147) over n fields when the
\* f-th send raises: the number of sends awaited
RedisDeliveries(n, f) == IF f <= n THEN f ELSE n

\* Channel(send=self.send).send(payload), k times, the f-th raising
RedisSent(k, p, f) ==
    [i \in 1..k |-> [channel |-> 0, payload |-> p, raised |-> (i = f)]]

\* WebSocketEndpoint.on_connect: the layer's send becomes the websocket's
\* (line 22).  A ChannelLayer never reads the attribute.  The Channel() of
\* line 21 is kept by the endpoint and reaches the layer only as the argument
\* of a later call, where it is NamedObj of a drawn name.
on_connect ==
    /\ layer = "RedisLayer"
    /\ send = "None"
    /\ send' = "websocket"
    /\ UNCHANGED <<layer, now, chans, groups, last, initialized, connections, store,
                   iter, inits>>

\* RedisLayer.add from line 112 on
RedisLayer_add_rest(g, ch) ==
    IF ~validate_name(g)
    THEN /\ last' = Call("add", g, ch, "p1", "TypeError", <<>>, store)
         /\ UNCHANGED store
    ELSE /\ store' = hset(store, group_prefix(g), ch.name)
         /\ last' = Call("add", g, ch, "p1", "ok", <<>>, store)

\* RedisLayer.add(group_name, channel)
RedisLayer_add(g, ch) ==
    /\ layer = "RedisLayer"
    /\ Initialized
    /\ RedisLayer_add_rest(g, ch)
    /\ UNCHANGED <<layer, now, chans, groups, send, iter, inits>>

\* RedisLayer.remove from line 130 on: channel goes to HDEL as it is, and
\* aioredis encodes bytes, str, int and float only
RedisLayer_remove_rest(g, ch) ==
    IF ch.kind = "obj"
    THEN /\ last' = Call("remove", g, ch, "p1", "TypeError", <<>>, store)
         /\ UNCHANGED store
    ELSE /\ store' = hdel(store, group_prefix(g), ch.name)
         /\ last' = Call("remove", g, ch, "p1", "ok", <<>>, store)

\* RedisLayer.remove(group_name, channel)
RedisLayer_remove(g, ch) ==
    /\ layer = "RedisLayer"
    /\ Initialized
    /\ RedisLayer_remove_rest(g, ch)
    /\ UNCHANGED <<layer, now, chans, groups, send, iter, inits>>

\* RedisLayer.remove_channel from line 121 on
RedisLayer_remove_channel_rest(ch) ==
    \E keys \in scan(store) :
        /\ store' = hdel_all(store, keys, ch.name)
        /\ last' = Call("remove_channel", <<>>, ch, "p1", "ok", <<>>, store)

\* RedisLayer.remove_channel(channel)
RedisLayer_remove_channel(ch) ==
    /\ layer = "RedisLayer"
    /\ Initialized
    /\ RedisLayer_remove_channel_rest(ch)
    /\ UNCHANGED <<layer, now, chans, groups, send, iter, inits>>

\* RedisLayer.flush from line 136 on
RedisLayer_flush_rest ==
    \E keys \in scan(store) :
        /\ store' = delete_all(store, keys)
        /\ last' = Call("flush", <<>>, NoChannel, "p1", "ok", <<>>, store)

\* RedisLayer.flush
RedisLayer_flush ==
    /\ layer = "RedisLayer"
    /\ Initialized
    /\ RedisLayer_flush_rest
    /\ UNCHANGED <<layer, now, chans, groups, send, iter, inits>>

\* RedisLayer.group_send from line 145 on: one send through self.send per
\* field of the group's hash; with self.send None the first send raises
\* TypeError before anything is delivered
RedisLayer_group_send_rest(g, p) ==
    /\ LET n == Cardinality(Hash(store, group_prefix(g)))
       IN  IF send = "None"
           THEN last' = Call("group_send", g, NoChannel, p,
                             IF n = 0 THEN "ok" ELSE "TypeError", <<>>, store)
           ELSE \E f \in 1..(n + 1) :
                  last' = Call("group_send", g, NoChannel, p,
                               IF f <= n THEN "DeliveryError" ELSE "ok",
                               RedisSent(RedisDeliveries(n, f), p, f), store)
    /\ UNCHANGED store

\* RedisLayer.group_send(group, payload), with nothing interleaved
RedisLayer_group_send(g, p) ==
    /\ layer = "RedisLayer"
    /\ Initialized
    /\ RedisLayer_group_send_rest(g, p)
    /\ UNCHANGED <<layer, now, chans, groups, send, iter, inits>>

Init ==
    /\ layer \in {"ChannelLayer", "RedisLayer"}
    /\ now = 0
    /\ chans = <<>>
    /\ groups = EmptyDict
    /\ initialized = FALSE
    /\ connections = 0
    /\ send = "None"
    /\ store = [k \in {} |-> {}]
    /\ iter = NoIter
    /\ inits = <<>>
    /\ last = Call("none", <<>>, NoChannel, "p1", "ok", <<>>, EmptyDict)

Next ==
    \/ \E n \in ChannelNameArgs, e \in ExpiresArgs : NewChannel(n, e)
    \/ \E g \in GroupArgs, c \in 1..Len(chans) : ChannelLayer_add(g, c)
    \/ \E g \in GroupArgs, s \in ChannelNameArgs : ChannelLayer_add_name(g, s)
    \/ \E g \in GroupNames, c \in 1..Len(chans) : ChannelLayer_remove(g, ObjArg(c))
    \/ \E g \in GroupNames : ChannelLayer_remove(g, StrArg(ValidName))
    \/ ChannelLayer_flush
    \/ \E c \in 1..Len(chans) : ChannelLayer_remove_channel(c)
    \/ \E g \in GroupNames, p \in Payloads : ChannelLayer_group_send(g, p)
    \/ Tick
    \/ on_connect
    \/ \E g \in GroupArgs \cup PrefixedNames, s \in BareNames : RedisLayer_add(g, StrArg(s))
    \/ \E g \in GroupNames, n \in {ValidName} \cup RandomNames : RedisLayer_add(g, NamedObj(n))
    \/ \E g \in GroupNames \cup PrefixedNames, s \in BareNames : RedisLayer_remove(g, StrArg(s))
    \/ \E g \in GroupNames, n \in {ValidName} : RedisLayer_remove(g, NamedObj(n))
    \/ \E s \in BareNames : RedisLayer_remove_channel(StrArg(s))
    \/ \E n \in {ValidName} \cup RandomNames : RedisLayer_remove_channel(NamedObj(n))
    \/ RedisLayer_flush
    \/ \E g \in GroupNames \cup PrefixedNames, p \in Payloads : RedisLayer_group_send(g, p)

Spec == Init /\ [][Next]_vars

\* Channel(name=n) alone, for every string n of AllNames and for no name given
NextChannel ==
    \E n \in AllNames \cup {None} : NewChannel(n, DefaultExpires)

SpecChannel == Init /\ [][NextChannel]_vars

\* --------------------------------------------------------------- interleaved coroutines
\* The layer's coroutines run on one event loop and give way at an await
\* only.  Two awaits are taken as suspension points here: the send awaited in
\* the loop of ChannelLayer.group_send (line 66), and create_redis_pool in
\* RedisLayer._initialize (line 104).  Everything between two of them is one
\* step.

\* what next() on the dict iterator gives
Raise == [kind |-> "RuntimeError", channel |-> 0]
Stop == [kind |-> "StopIteration", channel |-> 0]
Yield(c) == [kind |-> "next", channel |-> c]

\* next() of the iterator of line 65.  A dict whose size is not the one the
\* iterator started with raises RuntimeError ("dictionary changed size during
\* iteration").  A dict of that size with no key set or deleted gives its keys
\* in order.  A dict of that size whose keys changed may raise, end early, or
\* give any of its keys, one given before included: which, depends on the
\* interpreter and on the slots of the dict.
DictNext(it) ==
    IF Len(it.dict) # it.di_used THEN {Raise}
    ELSE IF ~it.mutated
         THEN IF Len(it.calls) < Len(it.dict)
              THEN {Yield(it.dict[Len(it.calls) + 1])}
              ELSE {Stop}
         ELSE {Raise, Stop}
              \cup {Yield(c) : c \in IF Len(it.calls) < MaxSends THEN Range(it.dict) ELSE {}}

\* ChannelLayer.group_send(group, payload) up to its first suspension: the
\* sweep, the iterator over the group's dict, and the first send awaited
ChannelLayer_group_send_start(g, p) ==
    /\ layer = "ChannelLayer"
    /\ ~iter.active
    /\ LET swept == clean_expired(groups, chans, now)
           members == Get(swept, g)
       IN  /\ groups' = swept
           /\ IF members = <<>>
              THEN /\ last' = Call("group_send", g, NoChannel, p, "ok", <<>>, groups)
                   /\ UNCHANGED iter
              ELSE /\ iter' = [active |-> TRUE, live |-> TRUE, group |-> g,
                               payload |-> p, dict |-> members,
                               di_used |-> Len(members), mutated |-> FALSE,
                               calls |-> <<members[1]>>, before |-> groups]
                   /\ UNCHANGED last
    /\ UNCHANGED <<layer, now, chans>>
    /\ UNCHANGED redisVars

\* the send awaited by the suspended group_send raises: the exception leaves
\* the loop and the coroutine
ChannelLayer_group_send_raised ==
    /\ layer = "ChannelLayer"
    /\ iter.active
    /\ last' = Call("group_send", iter.group, NoChannel, iter.payload, "DeliveryError",
                    Sent(iter.calls, iter.payload, Len(iter.calls)), iter.before)
    /\ iter' = NoIter
    /\ UNCHANGED <<layer, now, chans, groups>>
    /\ UNCHANGED redisVars

\* the send awaited by the suspended group_send returns: the loop asks the
\* iterator for the next channel and awaits its send, or ends
ChannelLayer_group_send_resume ==
    /\ layer = "ChannelLayer"
    /\ iter.active
    /\ \E nx \in DictNext(iter) :
         IF nx.kind = "next"
         THEN /\ iter' = [iter EXCEPT !.calls = Append(@, nx.channel)]
              /\ UNCHANGED last
         ELSE /\ last' = Call("group_send", iter.group, NoChannel, iter.payload,
                              IF nx.kind = "RuntimeError" THEN "RuntimeError" ELSE "ok",
                              Sent(iter.calls, iter.payload, Len(iter.calls) + 1),
                              iter.before)
              /\ iter' = NoIter
    /\ UNCHANGED <<layer, now, chans, groups>>
    /\ UNCHANGED redisVars

\* a call on the RedisLayer
RedisCall(op, g, ch, p) == [op |-> op, group |-> g, channel |-> ch, payload |-> p]

\* the calls that are made on a layer not yet initialized
FirstCalls ==
    {RedisCall("add", g, StrArg(ValidName), "p1") : g \in GroupNames}
    \cup {RedisCall("remove", <<"x">>, StrArg(ValidName), "p1"),
          RedisCall("remove_channel", <<>>, StrArg(ValidName), "p1"),
          RedisCall("flush", <<>>, NoChannel, "p1"),
          RedisCall("group_send", <<"x">>, NoChannel, "p1")}

\* A method of the RedisLayer finds self.initialized False (lines 110, 119,
\* 128, 134, 143) and is suspended in _initialize, at create_redis_pool.
RedisLayer_initialize_begin(call) ==
    /\ layer = "RedisLayer"
    /\ ~initialized
    /\ Len(inits) < MaxInits
    /\ inits' = Append(inits, [call |-> call, done |-> FALSE])
    /\ UNCHANGED <<layer, now, chans, groups, last, iter, initialized, connections,
                   send, store>>

\* _initialize that leaves the flag as it is
initialize_unflagged ==
    /\ connections' = connections + 1
    /\ UNCHANGED initialized

\* RedisLayer._initialize once create_redis_pool has returned: the pool is
\* bound to self.redis and the flag is set (lines 104-105)
initialize ==
    /\ connections' = connections + 1
    /\ initialized' = TRUE

\* the method that called _initialize, from there on
RedisLayer_rest(call) ==
    CASE call.op = "add" -> RedisLayer_add_rest(call.group, call.channel)
      [] call.op = "remove" -> RedisLayer_remove_rest(call.group, call.channel)
      [] call.op = "remove_channel" -> RedisLayer_remove_channel_rest(call.channel)
      [] call.op = "flush" -> RedisLayer_flush_rest
      [] call.op = "group_send" -> RedisLayer_group_send_rest(call.group, call.payload)

\* create_redis_pool returns to the i-th coroutine that entered _initialize,
\* which goes on to the end of its method
RedisLayer_initialize_end(i) ==
    /\ layer = "RedisLayer"
    /\ ~inits[i].done
    /\ initialize
    /\ inits' = [inits EXCEPT ![i].done = TRUE]
    /\ RedisLayer_rest(inits[i].call)
    /\ UNCHANGED <<layer, now, chans, groups, send, iter>>

NextAsync ==
    \/ NewChannel(ValidName, DefaultExpires)
    \/ \E g \in GroupNames, c \in 1..Len(chans) : ChannelLayer_add(g, c)
    \/ \E g \in GroupNames, c \in 1..Len(chans) : ChannelLayer_remove(g, ObjArg(c))
    \/ \E c \in 1..Len(chans) : ChannelLayer_remove_channel(c)
    \/ ChannelLayer_flush
    \/ \E g \in GroupNames : ChannelLayer_group_send_start(g, "p1")
    \/ ChannelLayer_group_send_raised
    \/ ChannelLayer_group_send_resume
    \/ on_connect
    \/ \E call \in FirstCalls : RedisLayer_initialize_begin(call)
    \/ \E i \in 1..Len(inits) : RedisLayer_initialize_end(i)
    \/ \E g \in GroupNames, s \in BareNames : initialized /\ RedisLayer_add(g, StrArg(s))
    \/ \E g \in GroupNames, s \in BareNames : initialized /\ RedisLayer_remove(g, StrArg(s))
    \/ \E s \in BareNames : initialized /\ RedisLayer_remove_channel(StrArg(s))
    \/ initialized /\ RedisLayer_flush
    \/ \E g \in GroupNames, p \in Payloads : initialized /\ RedisLayer_group_send(g, p)

SpecAsync == Init /\ [][NextAsync]_vars

\* --------------------------------------------------------------- what the claims read
\* the (group, channel) memberships of a groups dict
Pairs(grps) ==
    {gc \in (DOMAIN grps) \X (1..MaxChans) : gc[2] \in Range(grps[gc[1]])}

\* the members of group g that have not expired at t
LiveMembers(grps, g, t) ==
    {c \in Range(Get(grps, g)) : ~is_expired(chans[c], t)}

\* how often channel c's delivery was invoked by a call
Invoked(call, c) == Cardinality({i \in DOMAIN call.calls : call.calls[i].channel = c})

\* the last step was the named operation of the ChannelLayer, and `now` is
\* the time it ran at
Did(op) == layer = "ChannelLayer" /\ last.op = op

\* (C1) Local layer: a group_send(g, p) that runs with nothing interleaved
\* invokes only deliveries of channels that are unexpired members of g when it
\* starts, each with p and at most once, and when no delivery raises it has
\* invoked every one of them exactly once.  A channel just added is a member,
\* a channel just removed is not.
C1_GroupSendReachesMembers ==
    /\ Did("group_send") =>
         LET live == LiveMembers(last.before, last.group, now)
         IN  /\ \A i \in DOMAIN last.calls :
                  /\ last.calls[i].channel \in live
                  /\ last.calls[i].payload = last.payload
             /\ \A c \in live : Invoked(last, c) <= 1
             /\ last.result = "ok" => \A c \in live : Invoked(last, c) = 1
    /\ (Did("add") /\ last.result = "ok") =>
         last.channel.id \in Range(Get(groups, last.group))
    /\ (Did("remove") /\ last.channel.kind = "obj") =>
         last.channel.id \notin Range(Get(groups, last.group))

\* both members of a group were invoked by one group_send
C1_Witness ==
    /\ layer = "ChannelLayer"
    /\ last.op = "group_send"
    /\ last.result = "ok"
    /\ Len(last.calls) = 2
    /\ last.calls[1].channel # last.calls[2].channel

\* (C2) Local layer: adding a Channel object to a group it is already in
\* leaves the groups as they were, no group ever holds a channel twice, and no
\* group_send invokes a channel's delivery more than once.
C2_AddIdempotent ==
    layer = "ChannelLayer" =>
        /\ (/\ last.op = "add"
            /\ last.result = "ok"
            /\ last.channel.kind = "obj"
            /\ last.channel.id \in Range(Get(last.before, last.group)))
           => groups = last.before
        /\ \A g \in DOMAIN groups : \A i, j \in 1..Len(groups[g]) :
             groups[g][i] = groups[g][j] => i = j
        /\ last.op = "group_send" =>
             \A c \in 1..Len(chans) : Invoked(last, c) <= 1

\* a channel was added to a group that already held it, beside another member
C2_Witness ==
    /\ layer = "ChannelLayer"
    /\ last.op = "add"
    /\ last.result = "ok"
    /\ last.channel.kind = "obj"
    /\ last.channel.id \in Range(Get(last.before, last.group))
    /\ Len(Get(groups, last.group)) = 2
\* the groups channel c is a member of
GroupsOf(grps, c) == {g \in DOMAIN grps : c \in Range(grps[g])}

\* (C3, as the spec states it) Local layer: a channel created with expires = 0
\* is expired from its creation on, and a group_send issued when a channel has
\* expired delivers nothing to it, leaves it in no group, and leaves every
\* unexpired membership in place.
C3_ExpiresZeroExpiredAtOnce ==
    /\ \A c \in 1..Len(chans) :
         chans[c].expires = 0 => is_expired(chans[c], now)
    /\ Did("group_send") =>
         /\ \A c \in 1..Len(chans) : is_expired(chans[c], now) =>
              /\ Invoked(last, c) = 0
              /\ GroupsOf(groups, c) = {}
         /\ \A gc \in Pairs(last.before) :
              ~is_expired(chans[gc[2]], now) => gc \in Pairs(groups)

\* (C3, amended) Local layer: a channel created with expires = 0 is expired as
\* soon as the clock reads later than the whole second it was created in: at
\* once when it was created inside a second, and not before the clock moves
\* when it was created exactly on one.  A group_send issued when a channel is
\* expired delivers nothing to it, leaves it in no group, and leaves every
\* unexpired membership in place.
C3_ExpiredSwept ==
    /\ \A c \in 1..Len(chans) : chans[c].expires = 0 =>
         /\ (chans[c].created_at % TicksPerSecond # 0 \/ now > chans[c].created_at)
              => is_expired(chans[c], now)
         /\ (chans[c].created_at % TicksPerSecond = 0 /\ now = chans[c].created_at)
              => ~is_expired(chans[c], now)
    /\ Did("group_send") =>
         /\ \A c \in 1..Len(chans) : is_expired(chans[c], now) =>
              /\ Invoked(last, c) = 0
              /\ GroupsOf(groups, c) = {}
         /\ \A gc \in Pairs(last.before) :
              ~is_expired(chans[gc[2]], now) => gc \in Pairs(groups)

\* a group_send swept an expired channel out of two groups, one of them not
\* the group sent to, and delivered to the unexpired member that stayed
C3_Witness ==
    /\ layer = "ChannelLayer"
    /\ last.op = "group_send"
    /\ \E c \in 1..Len(chans) :
         /\ is_expired(chans[c], now)
         /\ Cardinality(GroupsOf(last.before, c)) = 2
         /\ GroupsOf(groups, c) = {}
         /\ chans[c].expires = 0
    /\ Len(last.calls) = 1
    /\ ~is_expired(chans[last.calls[1].channel], now)

\* no membership appears except by an add of that channel to that group
OnlyAddJoins ==
    Pairs(groups) \ Pairs(last.before) \subseteq
        (IF last.op = "add" /\ last.result = "ok"
         THEN {<<last.group, last.channel.id>>} ELSE {})

\* (C4) Local layer: an add to group A changes the members of no other group;
\* a channel becomes a member of B only by an add of it to B, and
\* group_send(B, p) invokes only deliveries of members of B.
C4_GroupsIsolated ==
    layer = "ChannelLayer" =>
        /\ last.op = "add" =>
             \A B \in (DOMAIN groups \cup DOMAIN last.before) \ {last.group} :
                 /\ B \in DOMAIN last.before
                 /\ Get(groups, B) = Get(last.before, B)
        /\ OnlyAddJoins
        /\ last.op = "group_send" =>
             \A i \in DOMAIN last.calls :
                 last.calls[i].channel \in Range(Get(last.before, last.group))

\* a channel was added to one group while the other group had another member
C4_Witness ==
    /\ layer = "ChannelLayer"
    /\ last.op = "add"
    /\ last.result = "ok"
    /\ \E B \in DOMAIN groups \ {last.group} :
         /\ groups[B] # <<>>
         /\ last.channel.id \notin Range(groups[B])
    /\ last.channel.id \notin Range(Get(last.before, last.group))

\* (C5) Local layer: after remove_channel(c) the channel c is a member of no
\* group, whatever number of groups it was in; it becomes a member again only
\* by an add, and a group_send invokes only members.
C5_RemoveChannelEverywhere ==
    layer = "ChannelLayer" =>
        /\ last.op = "remove_channel" =>
             /\ GroupsOf(groups, last.channel.id) = {}
             /\ Pairs(groups) = {gc \in Pairs(last.before) : gc[2] # last.channel.id}
        /\ last.op # "add" => Pairs(groups) \subseteq Pairs(last.before)
        /\ last.op = "group_send" =>
             \A c \in 1..Len(chans) :
                 Invoked(last, c) > 0 => last.group \in GroupsOf(last.before, c)

\* remove_channel took a channel out of two groups at once
C5_Witness ==
    /\ layer = "ChannelLayer"
    /\ last.op = "remove_channel"
    /\ Cardinality(GroupsOf(last.before, last.channel.id)) = 2
    /\ GroupsOf(groups, last.channel.id) = {}

\* (C6) Local layer: after flush there is no group and no membership, whatever
\* there was before; members appear again only by an add.
C6_FlushClearsAll ==
    layer = "ChannelLayer" =>
        /\ last.op = "flush" =>
             /\ DOMAIN groups = {}
             /\ Pairs(groups) = {}
             /\ last.result = "ok"
        /\ (last.op \notin {"add", "flush"} /\ Pairs(last.before) = {}) => Pairs(groups) = {}
        /\ (last.op = "group_send" /\ Pairs(last.before) = {}) => last.calls = <<>>

\* flush cleared two populated groups
C6_Witness ==
    /\ layer = "ChannelLayer"
    /\ last.op = "flush"
    /\ Cardinality({g \in DOMAIN last.before : last.before[g] # <<>>}) = 2
    /\ Pairs(groups) = {}

\* (C7) Local layer: remove(g, c) raises nothing; the memberships after it are
\* those before it without (g, c), which is all of them when g is no group or
\* c is not in g.
C7_RemoveExact ==
    (layer = "ChannelLayer" /\ last.op = "remove") =>
            /\ last.result = "ok"
            /\ Pairs(groups) =
                 Pairs(last.before) \ (IF last.channel.kind = "obj"
                                       THEN {<<last.group, last.channel.id>>} ELSE {})
            /\ \A g \in DOMAIN last.before :
                 g # last.group => (g \in DOMAIN groups /\ groups[g] = last.before[g])

\* remove took one of the two members of a group out
C7_Witness ==
    /\ layer = "ChannelLayer"
    /\ last.op = "remove"
    /\ last.channel.kind = "obj"
    /\ <<last.group, last.channel.id>> \in Pairs(last.before)
    /\ Len(Get(groups, last.group)) = 1
    /\ Len(Get(last.before, last.group)) = 2

\* (C9) Local layer: when a delivery raises during group_send, group_send
\* raises the same error, the deliveries invoked are the unexpired members up
\* to the raising one in the order of the group's dict, each once, the raising
\* one last; no later member is invoked and none is invoked again.
C9_FailureAborts ==
    Did("group_send") =>
        LET order == Unexpired(Get(last.before, last.group), chans, now)
            n == Len(last.calls)
        IN  /\ last.result \in {"ok", "DeliveryError"}
            /\ last.result = "DeliveryError" <=> \E i \in 1..n : last.calls[i].raised
            /\ \A i \in 1..n : last.calls[i].raised => i = n
            /\ n <= Len(order)
            /\ \A i \in 1..n : last.calls[i].channel = order[i]
            /\ last.result = "ok" => n = Len(order)

\* the first delivery raised and the second member was not invoked
C9_Witness ==
    /\ layer = "ChannelLayer"
    /\ last.op = "group_send"
    /\ last.result = "DeliveryError"
    /\ Len(last.calls) = 1
    /\ Len(Get(groups, last.group)) = 2
\* the identifier constraint the spec states: not empty, ASCII letters, digits
\* and underscore, no digit first
SpecIdentifier(s) ==
    /\ Len(s) > 0
    /\ s[1] \in AsciiLetters \cup {"_"}
    /\ \A i \in 1..Len(s) : s[i] \in AsciiLetters \cup Digits \cup {"_"}

\* an add that raised left the memberships as they were, in either layer
AddLeftStateAlone ==
    /\ last.result = "TypeError"
    /\ layer = "ChannelLayer" => groups = last.before
    /\ layer = "RedisLayer" => store = last.before

\* (C8, as the spec states it) Both layers: add with a group name that is not
\* an identifier of ASCII letters, digits and underscore raises, and leaves
\* the groups, or the store, as they were.
C8_NonAsciiIdentifierRejected ==
    (last.op = "add" /\ ~SpecIdentifier(last.group)) => AddLeftStateAlone

\* (C8, amended) Both layers: add with a group name for which
\* str.isidentifier() is false (empty, a digit first, or a character that is
\* no letter of any script, digit or underscore) raises TypeError, and leaves
\* the groups, or the store's keys and fields, as they were.
C8_InvalidGroupNameRejected ==
    (last.op = "add" /\ ~isidentifier(last.group)) => AddLeftStateAlone

\* an add to a RedisLayer that holds members was refused for its group name
C8_Witness ==
    /\ layer = "RedisLayer"
    /\ last.op = "add"
    /\ ~isidentifier(last.group)
    /\ last.result = "TypeError"
    /\ DOMAIN store # {}
    /\ store = last.before

\* (C10) Redis layer: a group_send(g, p) that returns has invoked the layer's
\* one delivery once per name stored under g's key, with p; it never invokes
\* it more often than that, and not at all when nothing is stored there.  An
\* add stores the name into the set of names under the key, so a name added
\* again is stored once.
C10_OneSendPerStoredName ==
    layer = "RedisLayer" =>
        /\ last.op = "group_send" =>
             LET n == Cardinality(Hash(last.before, group_prefix(last.group)))
             IN  /\ store = last.before
                 /\ \A i \in DOMAIN last.calls : last.calls[i].payload = last.payload
                 /\ Len(last.calls) <= n
                 /\ last.result = "ok" => Len(last.calls) = n
                 /\ n = 0 => last.result = "ok"
        /\ (last.op = "add" /\ last.result = "ok") =>
             /\ Hash(store, group_prefix(last.group)) =
                  Hash(last.before, group_prefix(last.group)) \cup {last.channel.name}
             /\ \A k \in DOMAIN store \cup DOMAIN last.before :
                  k # group_prefix(last.group) => Hash(store, k) = Hash(last.before, k)

\* a group_send delivered twice for the two names stored under the group's key
C10_Witness ==
    /\ layer = "RedisLayer"
    /\ last.op = "group_send"
    /\ last.result = "ok"
    /\ Cardinality(Hash(store, group_prefix(last.group))) = 2
    /\ Len(last.calls) = 2

\* (C11) Redis layer: after flush no key with the prefix is left in the store,
\* however many groups there were, so that a group_send to any group would
\* find no name to deliver for.
C11_FlushDeletesEveryKey ==
    (layer = "RedisLayer" /\ last.op = "flush") =>
        /\ last.result = "ok"
        /\ MatchingKeys(store) = {}
        /\ \A g \in GroupNames \cup PrefixedNames : Hash(store, group_prefix(g)) = {}

\* (C12) Redis layer: after remove_channel(c) the name of c is a field of no
\* group's hash, however many groups it was added to.
C12_RemoveChannelFromEveryKey ==
    (layer = "RedisLayer" /\ last.op = "remove_channel") =>
        /\ last.result = "ok"
        /\ \A k \in DOMAIN store : last.channel.name \notin store[k]

\* (C13) Redis layer: remove(g, c) with a Channel object c raises nothing and
\* leaves the name of c no field of g's hash, as the local layer's remove does.
C13_RemoveTakesChannelObject ==
    (layer = "RedisLayer" /\ last.op = "remove" /\ last.channel.kind = "obj") =>
        /\ last.result = "ok"
        /\ last.channel.name \notin Hash(store, group_prefix(last.group))

\* a call that takes the name n out of no hash
Keeps(call, n) ==
    /\ call.op # "flush"
    /\ ~(call.op \in {"remove", "remove_channel"} /\ call.channel.name = n)

\* (C15) Redis layer: a name stored under a group's key stays there through
\* every call that is no remove or remove_channel of that name and no flush,
\* and through the clock moving on; every group_send that returns has sent
\* once for each name under the key, at whatever time.
C15_NoExpiration ==
    layer = "RedisLayer" =>
        /\ \A k \in DOMAIN last.before : \A n \in last.before[k] :
             Keeps(last, n) => n \in Hash(store, k)
        /\ (last.op = "group_send" /\ last.result = "ok") =>
             Len(last.calls) = Cardinality(Hash(store, group_prefix(last.group)))

\* at the last reading of the clock a group_send sent for both names of a group
C15_Witness ==
    /\ layer = "RedisLayer"
    /\ now = MaxTime
    /\ last.op = "group_send"
    /\ last.result = "ok"
    /\ Len(last.calls) = 2
    /\ Hash(store, group_prefix(last.group)) = BareNames

\* (C18) Redis layer: an add to group A changes the names stored for no other
\* valid group name B, the name "group_x" beside "x" included, so that
\* group_send(B, p) sends nothing on account of it.
C18_KeysOfGroupsDistinct ==
    (layer = "RedisLayer" /\ last.op = "add" /\ last.result = "ok") =>
        \A B \in (GroupNames \cup PrefixedNames) \ {last.group} :
            Hash(store, group_prefix(B)) = Hash(last.before, group_prefix(B))

\* the members of group g that carry the name of channel c
Namesakes(grps, g, c) ==
    {d \in Range(Get(grps, g)) : chans[d].name = chans[c].name}

\* (C19) Local layer: members are Channel objects, not names.  An add with a
\* bare name makes a new member whatever names the members carry; remove(g, c)
\* takes out c and leaves every other member of the same name; a group_send
\* that returns has invoked each unexpired member once, namesakes included.
C19_MembersAreObjects ==
    layer = "ChannelLayer" =>
        /\ (last.op = "add" /\ last.result = "ok" /\ last.channel.kind = "str") =>
             /\ last.channel.id \notin Range(Get(last.before, last.group))
             /\ Range(Get(groups, last.group)) =
                  Range(Get(last.before, last.group)) \cup {last.channel.id}
             /\ Len(Get(groups, last.group)) = Len(Get(last.before, last.group)) + 1
        /\ (last.op = "remove" /\ last.channel.kind = "obj") =>
             Namesakes(groups, last.group, last.channel.id) =
                 Namesakes(last.before, last.group, last.channel.id) \ {last.channel.id}
        /\ (last.op = "group_send" /\ last.result = "ok") =>
             \A c \in LiveMembers(last.before, last.group, now) : Invoked(last, c) = 1

\* two channels made by add(g, "a") twice were both delivered to
C19_Witness ==
    /\ layer = "ChannelLayer"
    /\ last.op = "group_send"
    /\ last.result = "ok"
    /\ Len(last.calls) = 2
    /\ last.calls[1].channel # last.calls[2].channel
    /\ chans[last.calls[1].channel].name = chans[last.calls[2].channel].name
    /\ \A i \in 1..2 : chans[last.calls[i].channel].expires = DefaultExpires

\* (C20) Redis layer: every name stored as a field under a key is an
\* identifier (not empty; letters, digits, underscore; no digit first), and an
\* add with a bare channel name that is none raises and stores nothing.
C20_StoredNamesAreIdentifiers ==
    layer = "RedisLayer" =>
        /\ \A k \in DOMAIN store : \A n \in store[k] : SpecIdentifier(n)
        /\ (last.op = "add" /\ last.channel.kind = "str"
                /\ ~SpecIdentifier(last.channel.name)) =>
             /\ last.result = "TypeError"
             /\ store = last.before

\* (C14) Channel(name=n) with a string n: when n is an identifier (not empty;
\* letters, digits, underscore; no digit first) it returns a Channel whose name
\* is n; when n is none, the empty string included, it raises and makes no
\* Channel.
C14_ChannelNameValidated ==
    (layer = "ChannelLayer" /\ last.op = "Channel" /\ last.channel.name # None) =>
        IF SpecIdentifier(last.channel.name)
        THEN /\ last.result = "ok"
             /\ chans[last.channel.id].name = last.channel.name
        ELSE /\ last.result = "TypeError"
             /\ last.channel.id = 0

\* (C16) Local layer: a group_send that was suspended at a send, with add,
\* remove or remove_channel calls interleaved there, ends with no error but
\* that of a delivery, has invoked the members of the group as they were after
\* its sweep, in order and up to a raising one, and none of them twice.
C16_InterleavedGroupSendCompletes ==
    (layer = "ChannelLayer" /\ last.op = "group_send") =>
        LET snapshot == Unexpired(Get(last.before, last.group), chans, now)
            n == Len(last.calls)
        IN  /\ last.result \in {"ok", "DeliveryError"}
            /\ n <= Len(snapshot)
            /\ \A i \in 1..n : last.calls[i].channel = snapshot[i]
            /\ last.result = "ok" => n = Len(snapshot)
            /\ \A c \in 1..Len(chans) : Invoked(last, c) <= 1

\* (C17) Redis layer: the flag is set exactly when a pool has been made, and
\* nothing is stored and no method has ended before that.  When no two
\* coroutines were inside _initialize together, one pool at most is ever made,
\* by the first call.  Every coroutine that entered _initialize makes a pool of
\* its own when it leaves, so two that were inside together make two.
C17_LazyInitialisation ==
    layer = "RedisLayer" =>
        /\ initialized <=> connections >= 1
        /\ DOMAIN store # {} => initialized
        /\ last.op \notin {"none", "tick"} => initialized
        /\ connections = Cardinality({i \in 1..Len(inits) : inits[i].done})
        /\ Len(inits) <= 1 => connections <= 1

\* two coroutines entered _initialize before either left it, and two pools
\* were made
C17_Witness ==
    /\ layer = "RedisLayer"
    /\ Len(inits) = 2
    /\ connections = 2
    /\ initialized
====
